---- MODULE Spec2Model ----
(***************************************************************************)
(* Model of the FPDF facade of src/fpdf/__init__.py: a millimetre-based,   *)
(* cursor-driven canvas on top of the PyMuPDF engine.                      *)
(*                                                                         *)
(* Lengths.  The engine works in points, the callers in millimetres, and   *)
(* the code converts with k = 72/25.4 = 1800/635.  Every length of the     *)
(* model is an integer number of 1/635 pt, so that a millimetre is 1800    *)
(* units, a point is 635 units and all the products of the code are exact. *)
(* Strings that the code normalises (family, style, format names) are      *)
(* sequences of one-character strings.                                     *)
(***************************************************************************)
EXTENDS Integers, Sequences, FiniteSets, TLC

\* ------------------------------------------------------------------------
\* Bounds of the exploration
\* ------------------------------------------------------------------------
\* the documents explored have at most MaxPages pages
MaxPages == 2
\* the cursor is followed up to MaxOverMm millimetres past the page edges
MaxOverMm == 5
\* the subtitles a ContentPDF collects
MaxSubtitles == 2

\* ------------------------------------------------------------------------
\* Units
\* ------------------------------------------------------------------------
\* self._k = 72.0 / 25.4 points per millimetre, in units per millimetre
K == 1800
\* one point, in units
PT == 635
\* _line_height: font_size * 1.2 points, in units per point of font size
LineFactor == 762

\* Optional[...] arguments: <<>> is None, <<v>> is the value v
None == <<>>
Some(v) == <<v>>

\* ------------------------------------------------------------------------
\* str.upper()
\* ------------------------------------------------------------------------
UpperChar(c) ==
    CASE c = "a" -> "A" [] c = "b" -> "B" [] c = "c" -> "C" [] c = "e" -> "E"
      [] c = "f" -> "F" [] c = "g" -> "G" [] c = "h" -> "H" [] c = "i" -> "I"
      [] c = "l" -> "L" [] c = "n" -> "N" [] c = "o" -> "O" [] c = "p" -> "P"
      [] c = "r" -> "R" [] c = "s" -> "S" [] c = "t" -> "T" [] c = "u" -> "U"
      [] c = "v" -> "V"
      [] OTHER -> c

Upper(str) == [i \in DOMAIN str |-> UpperChar(str[i])]

\* _FontKey.create keeping the letter case as written
FontKey_as_written(family, style) == [family |-> family, style |-> style]

\* _FontKey.create(family, style)
FontKey(family, style) == [family |-> Upper(family), style |-> Upper(style)]

HELVETICA == <<"H", "E", "L", "V", "E", "T", "I", "C", "A">>

\* builtin_fonts of set_font
builtin_fonts ==
    [k \in { FontKey(HELVETICA, <<>>), FontKey(HELVETICA, <<"B">>),
             FontKey(HELVETICA, <<"I">>), FontKey(HELVETICA, <<"B", "I">>) } |->
        CASE k.style = <<>> -> "helv"
          [] k.style = <<"B">> -> "helvb"
          [] k.style = <<"I">> -> "helvi"
          [] OTHER -> "helvbi"]

\* ------------------------------------------------------------------------
\* Inputs of the exploration
\* ------------------------------------------------------------------------
\* page formats handed to the constructor: a str (isstr) or a tuple of
\* millimetres
StrFormat(name) == [isstr |-> TRUE, name |-> name, dims |-> <<>>]
TupleFormat(dims) == [isstr |-> FALSE, name |-> <<>>, dims |-> dims]
Formats == { TupleFormat(<<50, 40>>) }

\* _PAGE_FORMATS_MM, in tenths of a millimetre
PAGE_FORMATS_MM ==
    [n \in { <<"A", "3">>, <<"A", "4">>, <<"A", "5">>,
             <<"L", "E", "T", "T", "E", "R">>, <<"L", "E", "G", "A", "L">> } |->
        CASE n = <<"A", "3">> -> <<2970, 4200>>
          [] n = <<"A", "4">> -> <<2100, 2970>>
          [] n = <<"A", "5">> -> <<1480, 2100>>
          [] n = <<"L", "E", "T", "T", "E", "R">> -> <<2159, 2794>>
          [] OTHER -> <<2159, 3556>>]

\* _resolve_page_format looking the name up as written
resolve_page_format_as_written(format) ==
    IF format.isstr
    THEN IF format.name \notin DOMAIN PAGE_FORMATS_MM
         THEN <<>>
         ELSE PAGE_FORMATS_MM[format.name]
    ELSE IF Len(format.dims) = 2
         THEN <<format.dims[1] * 10, format.dims[2] * 10>>
         ELSE <<>>

\* _resolve_page_format: the (width, height) pair in tenths of a millimetre,
\* or <<>> when the code raises ValueError
resolve_page_format(format) ==
    IF format.isstr
    THEN LET key == Upper(format.name)
         IN IF key \notin DOMAIN PAGE_FORMATS_MM
            THEN <<>>
            ELSE PAGE_FORMATS_MM[key]
    ELSE IF Len(format.dims) = 2
         THEN <<format.dims[1] * 10, format.dims[2] * 10>>
         ELSE <<>>

\* tenths of a millimetre times k
TenthToNative(t) == t * (K \div 10)

\* FPDF.__init__: the canvas after construction
NewFPDF(orientation, format) ==
    LET mm == resolve_page_format(format)
        portrait == Upper(orientation) = <<"P">>
    IN [ page_width  |-> TenthToNative(IF portrait THEN mm[1] ELSE mm[2]),
         page_height |-> TenthToNative(IF portrait THEN mm[2] ELSE mm[1]),
         doc |-> <<>>,
         page |-> 0,
         left_margin |-> 10 * K,
         right_margin |-> 10 * K,
         top_margin |-> 10 * K,
         bottom_margin |-> 10 * K,
         auto_page_break |-> TRUE,
         auto_page_break_margin |-> 15 * K,
         x |-> 10 * K,
         y |-> 10 * K,
         font_size |-> 12,
         font_map |-> [k \in {} |-> ""],
         font_key |-> FontKey(HELVETICA, <<>>) ]

\* pdf: the FPDF instance, a record of its attributes (doc is the sequence of
\*      pages of the engine document, page the number of the current page)
\* last: the last call made on it and its outcome
\* selected: how the set_font calls made so far ended
\* files: the files written by output, by path
VARIABLES pdf, last, selected, files

vars == <<pdf, last, selected, files>>

\* the record of the last call: what was called, the exception it raised ("" if
\* none), whether it created the first page (ensured), broke the page (broke)
\* or installed a missing font handle (repaired), what the engine returned
\* (used), the font key it named (key), the advance directives a cell was
\* given (new_x, new_y), the path output was given (path) and the arguments
\* set_y was given, or the constructor where the exploration varies them (args)
NoCall ==
    [ op |-> "init", err |-> "", ensured |-> FALSE, broke |-> FALSE,
      repaired |-> FALSE, used |-> 0, key |-> FontKey(<<>>, <<>>),
      new_x |-> "None", new_y |-> "None", path |-> "", args |-> <<>> ]

\* what is left when the constructor raised: no FPDF instance
NoCanvas == [raised |-> TRUE]

\* FPDF(orientation, unit, format): the instance, or the exception raised by
\* the unit check or by _resolve_page_format
FPDF(orientation, unit, format) ==
    IF unit # "mm"
    THEN [s |-> NoCanvas, err |-> "ValueError"]
    ELSE IF resolve_page_format(format) = <<>>
    THEN [s |-> NoCanvas, err |-> "ValueError"]
    ELSE [s |-> NewFPDF(orientation, format), err |-> ""]

\* the state after the constructor returned or raised
Construction(orientations, units, formats) ==
    /\ \E o \in orientations, u \in units, f \in formats :
          LET r == FPDF(o, u, f)
          IN /\ pdf = r.s
             /\ last = [NoCall EXCEPT !.err = r.err, !.args = <<o, u, f>>]
    /\ selected = "never"
    /\ files = [p \in {} |-> <<>>]

\* there is an instance to call
Built == last.op # "init" \/ last.err = ""

\* the state after FPDF(orientation, "mm", format) returned
Constructed(orientations, formats) ==
    /\ \E o \in orientations, f \in formats :
          /\ resolve_page_format(f) # <<>>
          /\ pdf = NewFPDF(o, f)
    /\ last = NoCall
    /\ selected = "never"
    /\ files = [p \in {} |-> <<>>]

\* ------------------------------------------------------------------------
\* Page management
\* ------------------------------------------------------------------------
\* add_page leaving the cursor where it was
add_page_keeping_cursor(s) ==
    [s EXCEPT !.doc = Append(@, [width |-> s.page_width, height |-> s.page_height]),
              !.page = Len(s.doc) + 1]

\* add_page: doc.new_page appends a page of the canvas's size, which becomes
\* the current one (page is its number in doc, 0 for None)
add_page(s) ==
    [s EXCEPT !.doc = Append(@, [width |-> s.page_width, height |-> s.page_height]),
              !.page = Len(s.doc) + 1,
              !.x = s.left_margin,
              !.y = s.top_margin]

\* set_auto_page_break storing the margin as given, in millimetres
set_auto_page_break_unconverted(s, auto, margin) ==
    [s EXCEPT !.auto_page_break = auto,
              !.auto_page_break_margin = margin]

\* set_auto_page_break(auto, margin)
set_auto_page_break(s, auto, margin) ==
    [s EXCEPT !.auto_page_break = auto,
              !.auto_page_break_margin = margin * K]

\* page_no as the index of the last page counted from zero
page_no_zero_based(s) == Len(s.doc) - 1

\* page_no
page_no(s) == Len(s.doc)

\* _ensure_page creating the first page without making it the current one
ensure_page_without_current(s) ==
    IF s.page = 0 THEN [add_page(s) EXCEPT !.page = 0] ELSE s

\* _ensure_page
ensure_page(s) == IF s.page = 0 THEN add_page(s) ELSE s

\* _line_height without the factor 1.2
line_height_single(s) == s.font_size * PT

\* _line_height
line_height(s) == s.font_size * LineFactor

\* _resolve_width taking the argument as points
resolve_width_unconverted(s, w) ==
    IF w = 0 THEN s.page_width - s.right_margin - s.x ELSE w * PT

\* _resolve_width
resolve_width(s, w) ==
    IF w = 0 THEN s.page_width - s.right_margin - s.x ELSE w * K

\* _resolve_height without the line-height default for h = 0
resolve_height_without_default(s, h) == h * K

\* _resolve_height
resolve_height(s, h) ==
    IF h = 0 THEN line_height(s) ELSE h * K

\* _resolve_coordinate testing the value for truth: 0 falls back to the cursor
resolve_coordinate_falsy(s, value, axis) ==
    IF value = None \/ value = Some(0)
    THEN (IF axis = "x" THEN s.x ELSE s.y)
    ELSE value[1] * K

\* _resolve_coordinate
resolve_coordinate(s, value, axis) ==
    IF value = None
    THEN (IF axis = "x" THEN s.x ELSE s.y)
    ELSE value[1] * K

\* _trigger_page_break comparing the cursor alone with the limit
trigger_page_break_without_height(s, height) ==
    IF ~s.auto_page_break
    THEN s
    ELSE LET bottom_limit == s.page_height - s.auto_page_break_margin
         IN IF s.y > bottom_limit THEN add_page(s) ELSE s

\* _trigger_page_break with the bottom margin as the trigger line
trigger_page_break_at_bottom_margin(s, height) ==
    IF ~s.auto_page_break
    THEN s
    ELSE LET bottom_limit == s.page_height - s.bottom_margin
         IN IF s.y + height > bottom_limit THEN add_page(s) ELSE s

\* _trigger_page_break
trigger_page_break(s, height) ==
    IF ~s.auto_page_break
    THEN s
    ELSE LET bottom_limit == s.page_height - s.auto_page_break_margin
         IN IF s.y + height > bottom_limit THEN add_page(s) ELSE s

\* ------------------------------------------------------------------------
\* Font management
\* ------------------------------------------------------------------------
\* a dict rebuilt with the one key
Put_alone(m, key, value) == [k \in {key} |-> value]

\* dict[key] = value
Put(m, key, value) ==
    [k \in DOMAIN m \cup {key} |-> IF k = key THEN value ELSE m[k]]

\* dict.setdefault(key, value)
SetDefault(m, key, value) == IF key \in DOMAIN m THEN m ELSE Put(m, key, value)

\* a font file on disk, as add_font meets it: no path given, a path that
\* does not exist, a file the engine rejects, a file the engine accepts
\* (insert_font then returns the handle)
FontFiles ==
    { [given |-> FALSE, exists |-> FALSE, handle |-> ""],
      [given |-> TRUE, exists |-> FALSE, handle |-> ""],
      [given |-> TRUE, exists |-> TRUE, handle |-> ""],
      [given |-> TRUE, exists |-> TRUE, handle |-> "F0"] }

\* add_font registering the key before it looks at the path
add_font_registering_first(s, family, style, fname) ==
    LET font_key == FontKey(family, style)
        s1 == [s EXCEPT !.font_map = Put(@, font_key, "F0")]
    IN IF ~fname.given
       THEN [s |-> s, err |-> "ValueError"]
       ELSE IF ~fname.exists
       THEN [s |-> s1, err |-> "FileNotFoundError"]
       ELSE IF fname.handle = ""
       THEN [s |-> s, err |-> "EngineError"]
       ELSE [s |-> [s EXCEPT !.font_map = Put(@, font_key, fname.handle)], err |-> ""]

\* add_font: the canvas after the call and the exception raised ("" if none)
add_font(s, family, style, fname) ==
    IF ~fname.given
    THEN [s |-> s, err |-> "ValueError"]
    ELSE IF ~fname.exists
    THEN [s |-> s, err |-> "FileNotFoundError"]
    ELSE LET font_key == FontKey(family, style)
         IN IF fname.handle = ""
            THEN [s |-> s, err |-> "EngineError"]
            ELSE [s |-> [s EXCEPT !.font_map = Put(@, font_key, fname.handle)],
                  err |-> ""]

\* the "if size is not None" tail of set_font
SetSize(s, size) ==
    IF size # None THEN [s EXCEPT !.font_size = size[1]] ELSE s

\* set_font selecting the fallback key without installing its handle
set_font_without_install(s, family, style, size) ==
    LET font_key == FontKey(family, style)
    IN IF font_key \in DOMAIN s.font_map
       THEN [s |-> SetSize([s EXCEPT !.font_key = font_key], size), err |-> ""]
       ELSE LET builtin_key == FontKey(HELVETICA, Upper(style))
                s1 == [s EXCEPT !.font_key = builtin_key]
            IN IF builtin_key \notin DOMAIN builtin_fonts
               THEN [s |-> s1, err |-> "KeyError"]
               ELSE [s |-> SetSize(s1, size), err |-> ""]

\* set_font: the canvas after the call and the exception raised ("" if none)
set_font(s, family, style, size) ==
    LET font_key == FontKey(family, style)
    IN IF font_key \in DOMAIN s.font_map
       THEN [s |-> SetSize([s EXCEPT !.font_key = font_key], size), err |-> ""]
       ELSE LET fallback_style == Upper(style)
                builtin_key == FontKey(HELVETICA, fallback_style)
                s1 == [s EXCEPT !.font_key = builtin_key]
            IN IF builtin_key \notin DOMAIN builtin_fonts
               THEN [s |-> s1, err |-> "KeyError"]
               ELSE [s |-> SetSize([s1 EXCEPT !.font_map =
                                       SetDefault(@, builtin_key, builtin_fonts[builtin_key])],
                                   size),
                     err |-> ""]

\* set_font_size running the page-break check after the assignment
set_font_size_breaking(s, size) ==
    trigger_page_break([s EXCEPT !.font_size = size], 0)

\* set_font_size
set_font_size(s, size) == [s EXCEPT !.font_size = size]

\* _current_font_name returning the fallback without storing it
current_font_name_without_install(s) ==
    IF s.font_key \in DOMAIN s.font_map
    THEN [s |-> s, name |-> s.font_map[s.font_key], repaired |-> FALSE]
    ELSE [s |-> s, name |-> "helv", repaired |-> TRUE]

\* _current_font_name: the handle and the canvas after the property ran
current_font_name(s) ==
    IF s.font_key \in DOMAIN s.font_map
    THEN [s |-> s, name |-> s.font_map[s.font_key], repaired |-> FALSE]
    ELSE [s |-> [s EXCEPT !.font_map = Put(@, s.font_key, "helv")],
          name |-> "helv", repaired |-> TRUE]

\* ------------------------------------------------------------------------
\* Position helpers
\* ------------------------------------------------------------------------
\* set_y multiplying by the points of a unit instead of the millimetre factor
set_y_in_points(s, y) == [s EXCEPT !.y = y * PT]

\* set_y
set_y(s, y) == [s EXCEPT !.y = y * K]

\* ln moving down without the return to the left margin
ln_keeping_x(s, h) == [s EXCEPT !.y = s.y + resolve_height(s, h)]

\* ln
ln(s, h) == [s EXCEPT !.x = s.left_margin, !.y = s.y + resolve_height(s, h)]

\* ------------------------------------------------------------------------
\* The floats of set_y and get_y.  A Python float is an IEEE 754 binary64
\* number: here [neg, man, exp] stands for (+/-) man * 2^exp with
\* 2^52 <= man < 2^53, or man = 0 for zero; man is written in five digits
\* of base 2^14, the most significant first; the results of * and / are
\* rounded to the nearest float, ties to the even mantissa.
\* ------------------------------------------------------------------------
\* the base of the digits of a mantissa, and half of it
Base == 16384
HalfBase == Base \div 2

\* the five digits F(1) .. F(5)
Digits(F(_)) == <<F(1), F(2), F(3), F(4), F(5)>>

NatZero == <<0, 0, 0, 0, 0>>
NatOne == <<0, 0, 0, 0, 1>>

\* a < b, from digit i on
LessFrom(a, b, i) ==
    \E j \in i..5 : a[j] < b[j] /\ \A t \in i..(j - 1) : a[t] = b[t]

Less(a, b) == LessFrom(a, b, 1)

\* a - b, for a >= b
Minus(a, b) ==
    Digits(LAMBDA i :
        (a[i] - b[i] - (IF i < 5 /\ LessFrom(a, b, i + 1) THEN 1 ELSE 0) + Base) % Base)

\* 2 * a + bit
Twice(a, bit) ==
    Digits(LAMBDA i :
        (2 * a[i] + (IF i = 5 THEN bit ELSE a[i + 1] \div HalfBase)) % Base)

\* a + 1
Successor(a) ==
    Digits(LAMBDA i :
        (a[i] + (IF \A t \in (i + 1)..5 : a[t] = Base - 1 THEN 1 ELSE 0)) % Base)

\* a + b
Plus(a, b) ==
    Digits(LAMBDA i :
        (a[i] + b[i]
           + (IF \E j \in (i + 1)..5 :
                    /\ a[j] + b[j] >= Base
                    /\ \A t \in (i + 1)..(j - 1) : a[t] + b[t] = Base - 1
              THEN 1 ELSE 0)) % Base)

\* a * n, for a natural n below 2^10
Times(a, n) ==
    Plus(Digits(LAMBDA i : (a[i] * n) % Base),
         Digits(LAMBDA i : IF i < 5 THEN (a[i + 1] * n) \div Base ELSE 0))

\* the number of binary digits of a digit, and of a # 0
DigitBits(d) == CHOOSE n \in 0..14 : d < 2^n /\ (n = 0 \/ d >= 2^(n - 1))

Bits(a) ==
    LET top == CHOOSE i \in 1..5 : a[i] # 0 /\ \A t \in 1..(i - 1) : a[t] = 0
    IN 14 * (5 - top) + DigitBits(a[top])

\* a \div 2^n, for n in 0..13
ShiftRight(a, n) ==
    Digits(LAMBDA i :
        a[i] \div 2^n + (IF i > 1 THEN (a[i - 1] % 2^n) * 2^(14 - n) ELSE 0))

\* a \div 2^n rounded to the nearest, ties to even, for n in 0..13
RoundShift(a, n) ==
    LET q == ShiftRight(a, n)
        r == a[5] % 2^n
        half == IF n = 0 THEN 0 ELSE 2^(n - 1)
        up == n > 0 /\ (r > half \/ (r = half /\ q[5] % 2 = 1))
    IN IF up THEN Successor(q) ELSE q

\* the float nearest to a * 2^exp, for a natural a of 53 to 66 binary digits
Rounded(neg, a, exp) ==
    LET n == Bits(a) - 53
        q == RoundShift(a, n)
    IN IF Bits(q) = 54
       THEN [neg |-> neg, man |-> ShiftRight(q, 1), exp |-> exp + n + 1]
       ELSE [neg |-> neg, man |-> q, exp |-> exp + n]

FloatZero == [neg |-> FALSE, man |-> NatZero, exp |-> 0]

\* float(n) for an int n between -2^10 and 2^10: the 53 binary digits of the
\* mantissa are those of |n| followed by zeros, which fall in the two most
\* significant digits of base 2^14
Float(n) ==
    IF n = 0
    THEN FloatZero
    ELSE LET a == IF n < 0 THEN 0 - n ELSE n
             bits == DigitBits(a)
             v == a * 2^(53 - bits - 42)
         IN [neg |-> n < 0, man |-> <<v \div Base, v % Base, 0, 0, 0>>,
             exp |-> bits - 53]

\* n * x for an int n between -2^10 and 2^10 and a float x: float(n) * x
FloatTimes(n, x) ==
    IF n = 0 \/ x.man = NatZero
    THEN FloatZero
    ELSE Rounded((n < 0) # x.neg, Times(x.man, IF n < 0 THEN 0 - n ELSE n), x.exp)

\* long division in base 2: n more binary digits of d.rem / b after those
\* of d.q
RECURSIVE DivideLoop(_, _, _)
DivideLoop(d, n, b) ==
    IF n = 0
    THEN d
    ELSE LET r2 == Twice(d.rem, 0)
         IN IF Less(r2, b)
            THEN DivideLoop([q |-> Twice(d.q, 0), rem |-> r2], n - 1, b)
            ELSE DivideLoop([q |-> Twice(d.q, 1), rem |-> Minus(r2, b)], n - 1, b)

\* x / y for floats x and y # 0
FloatDivide(x, y) ==
    IF x.man = NatZero
    THEN FloatZero
    ELSE LET whole == ~Less(x.man, y.man)
             d == IF whole
                  THEN DivideLoop([q |-> NatOne, rem |-> Minus(x.man, y.man)], 52, y.man)
                  ELSE DivideLoop([q |-> NatZero, rem |-> x.man], 53, y.man)
             r2 == Twice(d.rem, 0)
             up == Less(y.man, r2) \/ (r2 = y.man /\ d.q[5] % 2 = 1)
             q == IF up THEN Successor(d.q) ELSE d.q
             exp == x.exp - y.exp - (IF whole THEN 52 ELSE 53)
         IN IF Bits(q) = 54
            THEN [neg |-> x.neg # y.neg, man |-> ShiftRight(q, 1), exp |-> exp + 1]
            ELSE [neg |-> x.neg # y.neg, man |-> q, exp |-> exp]

\* the float literal 25.4 = 0x1.9666666666666p+4
TwentyFivePointFour ==
    [neg |-> FALSE, man |-> <<0, 1625, 9830, 6553, 9830>>, exp |-> 0 - 48]

\* self._k = 72.0 / 25.4, as the float it is
k_float == FloatDivide(Float(72), TwentyFivePointFour)

\* set_y: the float stored in self.y for an int y
set_y_float(y) == FloatTimes(y, k_float)

\* get_y: self.y / self._k
get_y_float(y) == FloatDivide(y, k_float)

\* ------------------------------------------------------------------------
\* Drawing primitives
\* ------------------------------------------------------------------------
\* _insert_text: resolves the active font, then hands the rectangle to
\* page.insert_textbox
insert_text(s, rect) ==
    LET f == current_font_name(s)
    IN [s |-> f.s, name |-> f.name, repaired |-> f.repaired, page |-> s.page]

\* the cursor x after cell, with no directive treated as a reset to the margin
CellNewX_to_margin(s, width, new_x) ==
    IF new_x \in {"RMARGIN", "RIGHT"} THEN s.page_width - s.right_margin
    ELSE s.left_margin

\* the cursor x after cell, by the new_x directive
CellNewX(s, width, new_x) ==
    IF new_x = "None" THEN s.x + width
    ELSE IF new_x = "LMARGIN" THEN s.left_margin
    ELSE IF new_x \in {"LEFT", "NEXT"} THEN s.left_margin
    ELSE IF new_x \in {"RMARGIN", "RIGHT"} THEN s.page_width - s.right_margin
    ELSE s.x

\* the cursor y after cell, with the new_y directive ignored
CellNewY_ignoring_directive(s, height, new_y) == s.y

\* the cursor y after cell, by the new_y directive
CellNewY(s, height, new_y) ==
    IF new_y = "NEXT"
    THEN s.y + (IF height # 0 THEN height ELSE line_height(s))
    ELSE s.y

\* cell without the _ensure_page call
cell_without_ensure(s, w, h, new_x, new_y) ==
    LET s1 == s
        height == resolve_height(s1, h)
        width == resolve_width(s1, w)
        s2 == trigger_page_break(s1, height)
        rect == <<s2.x, s2.y, s2.x + width, s2.y + height>>
        t == insert_text(s2, rect)
        s3 == [t.s EXCEPT !.x = CellNewX(t.s, width, new_x)]
        s4 == [s3 EXCEPT !.y = CellNewY(s3, height, new_y)]
    IN [s |-> s4, rect |-> rect, at |-> t.page, height |-> height,
        width |-> width, handle |-> t.name, repaired |-> t.repaired,
        ensured |-> page_no(s1) > page_no(s), broke |-> page_no(s2) > page_no(s1)]

\* cell: the canvas after the call and what was handed to the engine
cell(s, w, h, new_x, new_y) ==
    LET s1 == ensure_page(s)
        height == resolve_height(s1, h)
        width == resolve_width(s1, w)
        s2 == trigger_page_break(s1, height)
        rect == <<s2.x, s2.y, s2.x + width, s2.y + height>>
        t == insert_text(s2, rect)
        s3 == [t.s EXCEPT !.x = CellNewX(t.s, width, new_x)]
        s4 == [s3 EXCEPT !.y = CellNewY(s3, height, new_y)]
    IN [s |-> s4, rect |-> rect, at |-> t.page, height |-> height,
        width |-> width, handle |-> t.name, repaired |-> t.repaired,
        ensured |-> page_no(s1) > page_no(s), broke |-> page_no(s2) > page_no(s1)]

\* the advance of multi_cell without the "if used_height == 0" fallback
MultiCellAdvance_without_fallback(s, used_height, min_height) ==
    IF used_height >= min_height THEN used_height ELSE min_height

\* the advance of multi_cell: "if used_height == 0" and the max
MultiCellAdvance(s, used_height, min_height) ==
    LET used == IF used_height = 0 THEN line_height(s) ELSE used_height
    IN IF used >= min_height THEN used ELSE min_height

\* multi_cell continuing on a new page when the text ran past the break limit
multi_cell_continuing(s, w, h, used_height) ==
    LET s1 == ensure_page(s)
        width == resolve_width(s1, w)
        min_height == resolve_height(s1, h)
        s2 == trigger_page_break(s1, min_height)
        bottom == s2.page_height - s2.bottom_margin
        rect == <<s2.x, s2.y, s2.x + width, bottom>>
        f == current_font_name(s2)
        s3 == f.s
        s4 == [s3 EXCEPT !.y = s3.y + MultiCellAdvance(s3, used_height, min_height)]
        s5 == [s4 EXCEPT !.x = s4.left_margin]
        s6 == IF s5.y > s5.page_height - s5.auto_page_break_margin
              THEN add_page(s5) ELSE s5
    IN [s |-> s6, rect |-> rect, at |-> s2.page, pages |-> page_no(s2),
        height |-> min_height,
        width |-> width, handle |-> f.name, repaired |-> f.repaired,
        ensured |-> page_no(s1) > page_no(s), broke |-> page_no(s2) > page_no(s1)]

\* multi_cell: used_height is what page.insert_textbox returns; pages is the
\* page count when the text is handed to the engine
multi_cell(s, w, h, used_height) ==
    LET s1 == ensure_page(s)
        width == resolve_width(s1, w)
        min_height == resolve_height(s1, h)
        s2 == trigger_page_break(s1, min_height)
        bottom == s2.page_height - s2.bottom_margin
        rect == <<s2.x, s2.y, s2.x + width, bottom>>
        f == current_font_name(s2)
        s3 == f.s
        s4 == [s3 EXCEPT !.y = s3.y + MultiCellAdvance(s3, used_height, min_height)]
        s5 == [s4 EXCEPT !.x = s4.left_margin]
    IN [s |-> s5, rect |-> rect, at |-> s2.page, pages |-> page_no(s2),
        height |-> min_height,
        width |-> width, handle |-> f.name, repaired |-> f.repaired,
        ensured |-> page_no(s1) > page_no(s), broke |-> page_no(s2) > page_no(s1)]

\* an image file, as fitz.Pixmap meets it: one it cannot load, or one with
\* its pixel width and height
ImageFiles ==
    { [ok |-> FALSE, width |-> 0, height |-> 0],
      [ok |-> TRUE, width |-> 40, height |-> 20] }

\* the size of the placed image with the missing side copied from the given
\* one
ImageSize_square(s, pix, w, h) ==
    IF w # 0 /\ h = 0
    THEN LET width == resolve_width(s, w)
         IN <<width, width>>
    ELSE IF h # 0 /\ w = 0
    THEN LET height == resolve_height(s, h)
         IN <<height, height>>
    ELSE IF w # 0 /\ h # 0
    THEN <<resolve_width(s, w), resolve_height(s, h)>>
    ELSE <<pix.width * PT, pix.height * PT>>

\* the size of the placed image, by the w and h hints
ImageSize(s, pix, w, h) ==
    IF w # 0 /\ h = 0
    THEN LET width == resolve_width(s, w)
         IN <<width, (width * pix.height) \div pix.width>>
    ELSE IF h # 0 /\ w = 0
    THEN LET height == resolve_height(s, h)
         IN <<(height * pix.width) \div pix.height, height>>
    ELSE IF w # 0 /\ h # 0
    THEN <<resolve_width(s, w), resolve_height(s, h)>>
    ELSE <<pix.width * PT, pix.height * PT>>

\* image advancing the cursor below the picture, as the text calls do
image_advancing(s, name, x, y, w, h) ==
    LET s1 == ensure_page(s)
    IN IF ~name.ok
       THEN [s |-> s1, err |-> "PixmapError", rect |-> <<>>, at |-> 0,
             height |-> 0, width |-> 0, ensured |-> page_no(s1) > page_no(s)]
       ELSE LET size == ImageSize(s1, name, w, h)
                x_pt == resolve_coordinate(s1, x, "x")
                y_pt == resolve_coordinate(s1, y, "y")
                rect == <<x_pt, y_pt, x_pt + size[1], y_pt + size[2]>>
            IN [s |-> [s1 EXCEPT !.y = s1.y + size[2]], err |-> "", rect |-> rect,
                at |-> s1.page, height |-> size[2], width |-> size[1],
                ensured |-> page_no(s1) > page_no(s)]

\* image: the canvas after the call, the exception raised ("" if none) and
\* what was handed to the engine
image(s, name, x, y, w, h) ==
    LET s1 == ensure_page(s)
    IN IF ~name.ok
       THEN [s |-> s1, err |-> "PixmapError", rect |-> <<>>, at |-> 0,
             height |-> 0, width |-> 0, ensured |-> page_no(s1) > page_no(s)]
       ELSE LET size == ImageSize(s1, name, w, h)
                x_pt == resolve_coordinate(s1, x, "x")
                y_pt == resolve_coordinate(s1, y, "y")
                rect == <<x_pt, y_pt, x_pt + size[1], y_pt + size[2]>>
            IN [s |-> s1, err |-> "", rect |-> rect,
                at |-> s1.page, height |-> size[2], width |-> size[1],
                ensured |-> page_no(s1) > page_no(s)]

\* output adding the pages to those the file already holds
output_appending(fs, s, name, saved) ==
    IF saved
    THEN [k \in DOMAIN fs \cup {name} |->
             IF k = name
             THEN (IF name \in DOMAIN fs THEN fs[name] \o s.doc ELSE s.doc)
             ELSE fs[k]]
    ELSE fs

\* output: doc.save writes the pages to the file, or fails
output(fs, s, name, saved) ==
    IF saved
    THEN [k \in DOMAIN fs \cup {name} |-> IF k = name THEN s.doc ELSE fs[k]]
    ELSE fs

\* ------------------------------------------------------------------------
\* ContentPDF, the subclass of generate_content_pdf.py: an FPDF with the
\* attribute index_data, the list of the {'title', 'page'} entries of the
\* subtitles
\* ------------------------------------------------------------------------
NotoSans == <<"N", "o", "t", "o", "S", "a", "n", "s">>

\* add_noto_sans_font: the two add_font calls and set_font, ended by the
\* first exception
add_noto_sans_font(s, font_regular, font_bold) ==
    LET r1 == add_font(s, NotoSans, <<>>, font_regular)
        r2 == add_font(r1.s, NotoSans, <<"B">>, font_bold)
        r3 == set_font(r2.s, NotoSans, <<>>, Some(12))
    IN IF r1.err # "" THEN r1
       ELSE IF r2.err # "" THEN r2
       ELSE r3

\* ContentPDF.__init__: FPDF() with its defaults (portrait, mm, A4),
\* set_auto_page_break(auto=True, margin=15), the empty index_data, and
\* add_noto_sans_font with its exception caught and printed
ContentPDF(font_regular, font_bold) ==
    LET s0 == NewFPDF(<<"P">>, StrFormat(<<"A", "4">>))
        s1 == set_auto_page_break(s0, TRUE, 15)
        s2 == [f \in DOMAIN s1 \cup {"index_data"} |->
                  IF f = "index_data" THEN <<>> ELSE s1[f]]
    IN add_noto_sans_font(s2, font_regular, font_bold).s

\* self.get_y() > mm: y / k > mm
get_y_above(s, mm) == s.y > mm * K

\* add_subtitle: the canvas after the call, the entry appended to index_data
\* and the page the subtitle's cell was drawn on
add_subtitle(s, subtitle) ==
    LET page_number == page_no(s)
        title == IF subtitle = "Charms" THEN "SuperCrushes" ELSE subtitle
        entry == [title |-> title, page |-> page_number]
        s1 == [s EXCEPT !.index_data = Append(@, entry)]
        s2 == set_font(s1, NotoSans, <<"B">>, Some(11)).s
        s3 == IF get_y_above(s2, 260) THEN add_page(s2) ELSE s2
        c == cell(s3, 0, 10, "LMARGIN", "NEXT")
    IN [s |-> ln(c.s, 3), entry |-> entry, at |-> c.at,
        added |-> page_no(s3) > page_no(s2),
        ensured |-> c.ensured, broke |-> c.broke]

\* add_title
add_title(s) ==
    LET s1 == set_font(s, NotoSans, <<"B">>, Some(16)).s
        s2 == ln(s1, 3)
        c == cell(s2, 0, 10, "LMARGIN", "NEXT")
    IN ln(c.s, 5)

\* add_text: used_height is what the engine returns to multi_cell
add_text(s, used_height) ==
    LET s1 == set_font(s, NotoSans, <<>>, Some(8)).s
        m == multi_cell(s1, 0, 5, used_height)
    IN ln(m.s, 1)

\* ------------------------------------------------------------------------
\* The calls
\* ------------------------------------------------------------------------
\* the canvases the exploration keeps
InBounds(s) ==
    /\ Len(s.doc) <= MaxPages
    /\ s.y <= s.page_height + MaxOverMm * K
    /\ s.y >= 0
    /\ s.x <= s.page_width + MaxOverMm * K

\* how the set_font calls so far ended: "never" called, "failed" (none has
\* returned), "ok" (the latest returned), "lapsed" (one returned, the latest
\* raised)
Selected(before, err) ==
    IF err = "" THEN "ok"
    ELSE IF before \in {"ok", "lapsed"} THEN "lapsed"
    ELSE "failed"

Call(op, err) == [NoCall EXCEPT !.op = op, !.err = err]

AddPage ==
    /\ InBounds(add_page(pdf))
    /\ pdf' = add_page(pdf)
    /\ last' = Call("add_page", "")
    /\ UNCHANGED <<selected, files>>

SetAutoPageBreak(margins) ==
    \E auto \in BOOLEAN, margin \in margins :
        /\ pdf' = set_auto_page_break(pdf, auto, margin)
        /\ last' = Call("set_auto_page_break", "")
        /\ UNCHANGED <<selected, files>>

AddFont(families, styles) ==
    \E family \in families, style \in styles, fname \in FontFiles :
        LET r == add_font(pdf, family, style, fname)
        IN /\ pdf' = r.s
           /\ last' = [Call("add_font", r.err) EXCEPT !.key = FontKey(family, style)]
           /\ UNCHANGED <<selected, files>>

SetFont(families, styles, sizes) ==
    \E family \in families, style \in styles, size \in {None} \cup {Some(z) : z \in sizes} :
        LET r == set_font(pdf, family, style, size)
        IN /\ pdf' = r.s
           /\ last' = [Call("set_font", r.err) EXCEPT !.key = FontKey(family, style)]
           /\ selected' = Selected(selected, r.err)
           /\ UNCHANGED files

SetFontSize(sizes) ==
    \E size \in sizes :
        /\ pdf' = set_font_size(pdf, size)
        /\ last' = Call("set_font_size", "")
        /\ UNCHANGED <<selected, files>>

SetY(ys) ==
    \E y \in ys :
        /\ InBounds(set_y(pdf, y))
        /\ pdf' = set_y(pdf, y)
        /\ last' = [Call("set_y", "") EXCEPT !.args = <<y>>]
        /\ UNCHANGED <<selected, files>>

Ln(heights) ==
    \E h \in heights :
        /\ InBounds(ln(pdf, h))
        /\ pdf' = ln(pdf, h)
        /\ last' = Call("ln", "")
        /\ UNCHANGED <<selected, files>>

Cell(widths, heights, xdirs, ydirs) ==
    \E w \in widths, h \in heights, new_x \in xdirs, new_y \in ydirs :
        LET r == cell(pdf, w, h, new_x, new_y)
        IN /\ InBounds(r.s)
           /\ pdf' = r.s
           /\ last' = [Call("cell", "") EXCEPT
                          !.ensured = r.ensured, !.broke = r.broke,
                          !.repaired = r.repaired,
                          !.new_x = new_x, !.new_y = new_y]
           /\ UNCHANGED <<selected, files>>

MultiCell(widths, heights, useds) ==
    \E w \in widths, h \in heights, used_height \in useds :
        LET r == multi_cell(pdf, w, h, used_height)
        IN /\ InBounds(r.s)
           /\ pdf' = r.s
           /\ last' = [Call("multi_cell", "") EXCEPT
                          !.ensured = r.ensured, !.broke = r.broke,
                          !.repaired = r.repaired, !.used = used_height]
           /\ UNCHANGED <<selected, files>>

Image(names, coords, widths, heights) ==
    \E name \in names, x \in coords, y \in coords, w \in widths, h \in heights :
        LET r == image(pdf, name, x, y, w, h)
        IN /\ InBounds(r.s)
           /\ pdf' = r.s
           /\ last' = [Call("image", r.err) EXCEPT !.ensured = r.ensured]
           /\ UNCHANGED <<selected, files>>

\* the ContentPDF instances the exploration keeps
InContentBounds(s) == InBounds(s) /\ Len(s.index_data) <= MaxSubtitles

AddSubtitle(subtitles) ==
    \E subtitle \in subtitles :
        LET r == add_subtitle(pdf, subtitle)
        IN /\ InContentBounds(r.s)
           /\ pdf' = r.s
           /\ last' = [Call("add_subtitle", "") EXCEPT
                          !.ensured = r.ensured, !.broke = r.broke,
                          !.args = <<r.at>>]
           /\ UNCHANGED <<selected, files>>

AddTitle ==
    /\ InContentBounds(add_title(pdf))
    /\ pdf' = add_title(pdf)
    /\ last' = Call("add_title", "")
    /\ UNCHANGED <<selected, files>>

AddText(useds) ==
    \E used_height \in useds :
        /\ InContentBounds(add_text(pdf, used_height))
        /\ pdf' = add_text(pdf, used_height)
        /\ last' = [Call("add_text", "") EXCEPT !.used = used_height]
        /\ UNCHANGED <<selected, files>>

Output(paths) ==
    \E name \in paths, saved \in BOOLEAN :
        /\ files' = output(files, pdf, name, saved)
        /\ last' = [Call("output", IF saved THEN "" ELSE "SaveError") EXCEPT
                       !.path = name]
        /\ UNCHANGED <<pdf, selected>>

\* ------------------------------------------------------------------------
\* Layout: the calls that move the cursor or create pages, on a 50 x 40 mm
\* portrait page, with widths and heights that fit the page, fill it and
\* exceed it.  The font registry and the files do not influence the geometry:
\* add_font and output are explored by SpecFont.
\* ------------------------------------------------------------------------
Foo == <<"F", "o", "o">>
Sizes == { 0, 24 }
Widths == { 0, 20 }
Heights == { 0, 10, 20 }
BreakMargins == { 0, 15 }
YValues == { 30 }
XDirectives == { "None", "LEFT", "LMARGIN", "RIGHT", "RMARGIN", "NEXT" }
YDirectives == { "None", "TOP", "NEXT" }
UsedHeights == { 0 - 10 * K, 0, 20 * K }
Coordinates == { None, Some(30) }

\* one directive for each branch of cell: LEFT and NEXT take the branch of
\* LMARGIN, RIGHT that of RMARGIN, TOP that of no directive
XBranches == {"None", "LMARGIN", "RMARGIN"}
YBranches == {"None", "NEXT"}

Init == Constructed({<<"p">>}, Formats)

Next ==
    \/ AddPage
    \/ SetAutoPageBreak(BreakMargins)
    \/ SetFont({Foo}, {<<>>}, Sizes)
    \/ SetFontSize(Sizes)
    \/ SetY(YValues)
    \/ Ln(Heights)
    \/ Cell(Widths, Heights, XBranches, YBranches)
    \/ MultiCell(Widths, Heights, UsedHeights)
    \/ Image(ImageFiles, Coordinates, Widths, {0, 10})

Spec == Init /\ [][Next]_vars

\* ------------------------------------------------------------------------
\* Fonts: the calls that read or write the font registry, with registered and
\* unregistered families, letter cases and styles inside and outside the
\* built-in ones, and the other calls with one argument each, on the
\* landscape page.
\* ------------------------------------------------------------------------
foo == <<"f", "o", "o">>
helvetica == <<"h", "e", "l", "v", "e", "t", "i", "c", "a">>
Styles == { <<>>, <<"B">>, <<"U">> }

InitFont == Constructed({<<"L">>}, Formats)

NextFont ==
    \/ AddPage
    \/ AddFont({Foo, helvetica}, {<<"b">>})
    \/ SetFont({foo}, Styles, {12})
    \/ SetFontSize({12})
    \/ Ln({0})
    \/ Cell({0}, {0}, {"None"}, {"NEXT"})
    \/ MultiCell({0}, {0}, {0})
    \/ Image(ImageFiles, {None}, {0}, {0})
    \/ Output({"a.pdf"})

SpecFont == InitFont /\ [][NextFont]_vars

\* ------------------------------------------------------------------------
\* The page formats: every named format in either spelling, a name the
\* constructor rejects, and explicit pairs, one of them narrower than the two
\* side margins together; either orientation; 20 mm steps over the page
\* ------------------------------------------------------------------------
NamedFormats ==
    { StrFormat(<<"A", "3">>), StrFormat(<<"a", "4">>), StrFormat(<<"A", "5">>),
      StrFormat(<<"L", "e", "t", "t", "e", "r">>),
      StrFormat(<<"l", "e", "g", "a", "l">>), StrFormat(<<"B", "5">>) }

ExplicitFormats == { TupleFormat(<<50, 40>>), TupleFormat(<<15, 30>>) }

Orientations == { <<"P">>, <<"p">>, <<"L">>, <<"l">> }

InitFormat == Constructed(Orientations, NamedFormats \cup ExplicitFormats)

NextFormat ==
    \/ AddPage
    \/ Ln({20})
    \/ Cell({20}, {20}, {"None", "LMARGIN", "LEFT", "NEXT"}, {"NEXT"})
    \/ MultiCell({0}, {20}, {20 * K})

SpecFormat == InitFormat /\ [][NextFormat]_vars

\* ------------------------------------------------------------------------
\* Saving: output to two paths, between calls that change the pages, the
\* cursor, the font and the settings
\* ------------------------------------------------------------------------
Paths == { "a.pdf", "out/b.pdf" }

InitOutput == Constructed({<<"P">>}, Formats)

NextOutput ==
    \/ AddPage
    \/ SetAutoPageBreak({15})
    \/ SetFont({Foo}, {<<"B">>}, {24})
    \/ Ln({20})
    \/ Cell({20}, {20}, {"None"}, {"NEXT"})
    \/ Output(Paths)

SpecOutput == InitOutput /\ [][NextOutput]_vars

\* ------------------------------------------------------------------------
\* Millimetres: set_y with the values of the callers (25, 30) and others, on
\* a page tall enough for them, between calls that move the cursor
\* ------------------------------------------------------------------------
Millimetres == { 0, 7, 10, 25, 30, 100 }

InitUnits == Constructed({<<"P">>}, {TupleFormat(<<60, 110>>)})

NextUnits ==
    \/ AddPage
    \/ SetY(Millimetres)
    \/ Ln({0, 10})
    \/ Cell({20}, {10}, {"None"}, {"NEXT"})

SpecUnits == InitUnits /\ [][NextUnits]_vars

\* ------------------------------------------------------------------------
\* Pending breaks: every call that changes the canvas without drawing, with
\* arguments that take the cursor past the trigger line, and the two text
\* placements, with auto-break switched on and off
\* ------------------------------------------------------------------------
InitPending == Constructed({<<"P">>}, Formats)

NextPending ==
    \/ AddPage
    \/ SetAutoPageBreak({15})
    \/ AddFont({Foo}, {<<>>})
    \/ SetFont({Foo}, {<<>>, <<"U">>}, {24})
    \/ SetFontSize({0})
    \/ SetY({30})
    \/ Ln({0, 20})
    \/ Cell({20}, {0, 10}, {"LMARGIN"}, {"None", "NEXT"})
    \/ MultiCell({20}, {0}, {0})
    \/ Output({"a.pdf"})

SpecPending == InitPending /\ [][NextPending]_vars

\* ------------------------------------------------------------------------
\* The content PDF: generate_content_pdf_file's calls on a ContentPDF whose
\* fonts were found or not, with texts of one line and of 100 mm
\* ------------------------------------------------------------------------
Subtitles == { "Charms", "Notes" }

InitContent ==
    /\ \E font_regular \in FontFiles, font_bold \in FontFiles :
          pdf = ContentPDF(font_regular, font_bold)
    /\ last = NoCall
    /\ selected = "never"
    /\ files = [p \in {} |-> <<>>]

NextContent ==
    \/ AddPage
    \/ AddTitle
    \/ AddSubtitle(Subtitles)
    \/ AddText({0, 100 * K})
    \/ Ln({5})

SpecContent == InitContent /\ [][NextContent]_vars

\* ------------------------------------------------------------------------
\* Construction: units, format names in both letter cases, other strings,
\* pairs and tuples that are no pairs; the calls go on where the constructor
\* returned
\* ------------------------------------------------------------------------
Units == { "mm", "MM", "cm", "pt", "in", "" }

OtherFormats ==
    { StrFormat(<<>>), StrFormat(<<"A", "4", " ">>), StrFormat(<<"a">>),
      TupleFormat(<<50>>), TupleFormat(<<50, 40, 30>>) }

InitConstruct ==
    Construction(Orientations, Units,
                 NamedFormats \cup ExplicitFormats \cup OtherFormats)

NextConstruct ==
    \/ Built /\ AddPage
    \/ Built /\ Ln({20})
    \/ Built /\ Cell({20}, {20}, {"None", "LMARGIN"}, {"NEXT"})

SpecConstruct == InitConstruct /\ [][NextConstruct]_vars

\* ------------------------------------------------------------------------
\* Properties
\* ------------------------------------------------------------------------
\* the break condition of the specification: cursor y + h > page height - t
Overflows(s, h) ==
    /\ s.auto_page_break
    /\ s.y + h > s.page_height - s.auto_page_break_margin

\* exactly one page more, and the text at (left margin, top margin) on it
BrokeOnce(s, r) ==
    /\ page_no(r.s) = page_no(s) + 1
    /\ r.at = page_no(r.s)
    /\ r.rect[1] = s.left_margin
    /\ r.rect[2] = s.top_margin

\* C1: with auto-page-break enabled, a cell or multi_cell call whose resolved
\* height h has cursor y + h > page height - trigger margin makes page_no()
\* grow by exactly one before drawing, and draws at (left margin, top margin)
\* of the new page.
C1_BreakAddsExactlyOnePage ==
    /\ \A w \in Widths, h \in Heights, new_x \in XDirectives, new_y \in YDirectives :
              LET r == cell(pdf, w, h, new_x, new_y)
              IN Overflows(pdf, r.height) => BrokeOnce(pdf, r)
    /\ \A w \in Widths, h \in Heights, used_height \in UsedHeights :
              LET r == multi_cell(pdf, w, h, used_height)
              IN Overflows(pdf, r.height) => BrokeOnce(pdf, r)

\* the bottom edge of the placement is on the page body
OnOnePage(s, r) ==
    r.rect[2] + r.height <= s.page_height - s.auto_page_break_margin

\* the height fits between the top margin and the break limit
Fits(s, h) == h <= s.page_height - s.auto_page_break_margin - s.top_margin

\* C2 (as stated): with auto-page-break enabled, for every cell or multi_cell
\* call and every resolved height, draw-time cursor y + resolved height does
\* not exceed page height - trigger margin.
C2_NeverSpansTwoPages ==
    /\ \A w \in Widths, h \in Heights, new_x \in XDirectives, new_y \in YDirectives :
              LET r == cell(pdf, w, h, new_x, new_y)
              IN pdf.auto_page_break => OnOnePage(pdf, r)
    /\ \A w \in Widths, h \in Heights, used_height \in UsedHeights :
              LET r == multi_cell(pdf, w, h, used_height)
              IN pdf.auto_page_break => OnOnePage(pdf, r)

\* C2 (amended): with auto-page-break enabled, for every cell or multi_cell
\* call whose resolved height is at most page height - trigger margin - top
\* margin, draw-time cursor y + resolved height does not exceed page height -
\* trigger margin.
C2_FittingPlacementOnOnePage ==
    /\ \A w \in Widths, h \in Heights, new_x \in XDirectives, new_y \in YDirectives :
              LET r == cell(pdf, w, h, new_x, new_y)
              IN (pdf.auto_page_break /\ Fits(pdf, r.height)) => OnOnePage(pdf, r)
    /\ \A w \in Widths, h \in Heights, used_height \in UsedHeights :
              LET r == multi_cell(pdf, w, h, used_height)
              IN (pdf.auto_page_break /\ Fits(pdf, r.height)) => OnOnePage(pdf, r)

\* a cell or multi_cell broke the page of an existing document and its
\* placement ended above the break limit, below the top margin
C2_Witness ==
    /\ last.op \in {"cell", "multi_cell"}
    /\ last.broke /\ ~last.ensured
    /\ pdf.auto_page_break
    /\ pdf.y > pdf.top_margin
    /\ pdf.y <= pdf.page_height - pdf.auto_page_break_margin

\* the active font key has a handle in the registry
Resolvable(s) == s.font_key \in DOMAIN s.font_map

\* C3: set_font never fails: for every family and style the call returns
\* normally and leaves the canvas with a valid active font.
C3_SetFontNeverFails ==
    last.op = "set_font" => (last.err = "" /\ Resolvable(pdf))

\* C4: once a set_font call has returned, the active font key is a key of the
\* font registry, in that state and in every later one.
C4_ActiveKeyStaysRegistered ==
    selected \in {"ok", "lapsed"} => Resolvable(pdf)

\* C5 (as stated): the missing-handle repair branch of the active-font
\* accessor is unreachable: whenever cell or multi_cell resolves the active
\* font, the active key already has a handle.
C5_RepairUnreachable ==
    last.op \in {"cell", "multi_cell"} => ~last.repaired

\* C5 (amended): while the most recent set_font call is one that returned
\* normally, the active key has a handle and no cell or multi_cell takes the
\* repair branch (a drawing call before any set_font, or after a set_font that
\* raised, does take it).
C5_NoRepairAfterSetFontReturned ==
    selected = "ok" => (Resolvable(pdf) /\ ~last.repaired)

\* a cell or multi_cell resolved the font selected by a set_font that returned
C5_Witness ==
    /\ last.op \in {"cell", "multi_cell"}
    /\ selected = "ok"
    /\ ~last.repaired

\* what drawing with the active font of s must give: the handle of the active
\* key if it has one, else "helv" installed under that key, the rest of the
\* registry and the active key as they were
ResolvesFont(s, r) ==
    /\ r.handle # ""
    /\ r.s.font_key = s.font_key
    /\ Resolvable(r.s)
    /\ r.s.font_map[s.font_key] = r.handle
    /\ \A k \in DOMAIN s.font_map : k \in DOMAIN r.s.font_map /\ r.s.font_map[k] = s.font_map[k]
    /\ DOMAIN r.s.font_map = DOMAIN s.font_map \cup {s.font_key}
    /\ ~Resolvable(s) => r.handle = "helv"

\* C6: drawing-time font resolution never fails: in every reachable state,
\* also after failed add_font or set_font calls, cell and multi_cell obtain a
\* font handle; if the active key had no handle, the plain built-in handle is
\* installed under that key and used.
C6_DrawingAlwaysResolvesFont ==
    /\ \A w \in Widths, h \in Heights, new_y \in YDirectives :
          ResolvesFont(pdf, cell(pdf, w, h, "None", new_y))
    /\ \A w \in Widths, h \in Heights, used_height \in UsedHeights :
          ResolvesFont(pdf, multi_cell(pdf, w, h, used_height))

\* a cell or multi_cell drew with the repaired handle after a set_font raised
C6_Witness ==
    /\ last.op \in {"cell", "multi_cell"}
    /\ last.repaired
    /\ selected \in {"failed", "lapsed"}
    /\ Resolvable(pdf)
    /\ pdf.font_map[pdf.font_key] = "helv"

\* the fallback key set_font selects for a style
FallbackKey(style) == [family |-> HELVETICA, style |-> style]

C8_FailedImageChangesNothing ==
    [][ (last'.op = "image" /\ last'.err # "")
            => /\ pdf'.x = pdf.x /\ pdf'.y = pdf.y
               /\ pdf'.page = pdf.page
               /\ page_no(pdf') = page_no(pdf)
      ]_vars

\* C9 (as stated): a successful image call leaves cursor x and y as they were,
\* in every reachable state.
C9_ImageKeepsCursor ==
    [][ (last'.op = "image" /\ last'.err = "")
            => (pdf'.x = pdf.x /\ pdf'.y = pdf.y)
      ]_vars

\* C9 (amended): a successful image call on a canvas that has a page leaves
\* cursor x and y as they were; on a canvas without a page the implicit first
\* page puts the cursor at (left margin, top margin).
C9_ImageKeepsCursorOnPage ==
    [][ (last'.op = "image" /\ last'.err = "")
            => IF pdf.page # 0
               THEN pdf'.x = pdf.x /\ pdf'.y = pdf.y
               ELSE pdf'.x = pdf.left_margin /\ pdf'.y = pdf.top_margin
      ]_vars

\* an image was placed on an existing page while the cursor was away from
\* the page origin
C9_Witness ==
    /\ last.op = "image" /\ last.err = ""
    /\ ~last.ensured
    /\ pdf.x # pdf.left_margin
    /\ pdf.y # pdf.top_margin

\* one line-height: font size x 1.2 points
OneLine(s) == (s.font_size * 12 * PT) \div 10

\* C10 (as stated): when the engine reports zero height used, cursor y after
\* multi_cell exceeds the y at which the block was drawn by at least one
\* line-height, so the cursor moves down, for any font size and any minimum
\* height.
C10_MultiCellAlwaysProgresses ==
    \A w \in Widths, h \in Heights :
        LET r == multi_cell(pdf, w, h, 0)
        IN /\ r.s.y - r.rect[2] >= OneLine(pdf)
           /\ r.s.y > r.rect[2]

\* C10 (amended): when the engine reports zero height used, cursor y after
\* multi_cell exceeds the y at which the block was drawn by at least one
\* line-height, and the cursor moves down whenever the font size is positive.
C10_MultiCellAdvancesOneLine ==
    \A w \in Widths, h \in Heights :
        LET r == multi_cell(pdf, w, h, 0)
        IN /\ r.s.y - r.rect[2] >= OneLine(pdf)
           /\ pdf.font_size > 0 => r.s.y > r.rect[2]

\* a multi_cell for which the engine reported zero height has run with a
\* font size chosen by the caller
C10_Witness ==
    /\ last.op = "multi_cell"
    /\ last.used = 0
    /\ pdf.font_size = 24

\* the right edge of the page body
RightEdge(s) == s.page_width - s.right_margin

\* C11: a cell or multi_cell called with width 0 draws a rectangle whose right
\* edge is page width - right margin, and a cell with width 0 and no advance
\* directive leaves cursor x at page width - right margin, whether or not the
\* call broke the page.
C11_ZeroWidthReachesRightMargin ==
    /\ \A h \in Heights, new_x \in XDirectives, new_y \in YDirectives :
          LET r == cell(pdf, 0, h, new_x, new_y)
          IN /\ r.rect[3] = RightEdge(pdf)
             /\ new_x = "None" => r.s.x = RightEdge(pdf)
    /\ \A h \in Heights, used_height \in UsedHeights :
          multi_cell(pdf, 0, h, used_height).rect[3] = RightEdge(pdf)

\* C12: a cell called with no advance directive leaves cursor x at the draw-time
\* x plus the resolved width (the right edge of the drawn rectangle) and
\* cursor y at the draw-time y.
C12_CellAdvancesRightByWidth ==
    \A w \in Widths, h \in Heights :
        LET r == cell(pdf, w, h, "None", "None")
        IN /\ r.s.x = r.rect[1] + r.width
           /\ r.s.x = r.rect[3]
           /\ w # 0 => r.s.x - r.rect[1] = w * K
           /\ r.s.y = r.rect[2]

\* a cell of 20 mm given no directive has broken the page and left the cursor
\* 20 mm right of the left margin, at the top margin
C12_Witness ==
    /\ last.op = "cell" /\ last.new_x = "None" /\ last.new_y = "None"
    /\ last.broke
    /\ pdf.x = pdf.left_margin + 20 * K
    /\ pdf.y = pdf.top_margin

\* the height of a cell given the height argument h: h millimetres, or one
\* line-height when h is zero
CellHeight(s, h) == IF h = 0 THEN OneLine(s) ELSE h * K

\* C13: for every advance directive, or none, the cursor x after cell is either
\* the draw-time x plus the width or the left margin, and the cursor y after
\* is either the draw-time y or the draw-time y plus the cell height.
C13_CellAdvanceTwoWays ==
    \A w \in Widths, h \in Heights, new_x \in XDirectives, new_y \in YDirectives :
        LET r == cell(pdf, w, h, new_x, new_y)
        IN /\ r.s.x \in {r.rect[1] + r.width, pdf.left_margin}
           /\ r.s.y \in {r.rect[2], r.rect[2] + CellHeight(pdf, h)}

\* C13 (amended): the cursor x after cell is the draw-time x plus the width
\* when no directive is given, the left margin for LMARGIN, LEFT and NEXT, and
\* page width - right margin for RMARGIN and RIGHT; the cursor y after is the
\* draw-time y plus the cell height for NEXT and the draw-time y otherwise.
C13_CellAdvanceByDirective ==
    \A w \in Widths, h \in Heights, new_x \in XDirectives, new_y \in YDirectives :
        LET r == cell(pdf, w, h, new_x, new_y)
        IN /\ new_x = "None" => r.s.x = r.rect[1] + r.width
           /\ new_x \in {"LMARGIN", "LEFT", "NEXT"} => r.s.x = pdf.left_margin
           /\ new_x \in {"RMARGIN", "RIGHT"} => r.s.x = RightEdge(pdf)
           /\ new_y = "NEXT" => r.s.y = r.rect[2] + CellHeight(pdf, h)
           /\ new_y # "NEXT" => r.s.y = r.rect[2]

\* a cell given RMARGIN or RIGHT, and NEXT, has left the cursor on the right
\* edge of the page body, below the top margin
C13_Witness ==
    /\ last.op = "cell" /\ last.new_x \in {"RMARGIN", "RIGHT"}
    /\ last.new_y = "NEXT"
    /\ pdf.x = RightEdge(pdf) /\ pdf.x # pdf.left_margin
    /\ pdf.y > pdf.top_margin

\* what multi_cell takes as the used height: the engine's report, or one
\* line-height when the engine reports zero
UsedOrLine(s, used_height) == IF used_height = 0 THEN OneLine(s) ELSE used_height

\* the larger of two lengths
Larger(a, b) == IF a >= b THEN a ELSE b

\* C14: after multi_cell, cursor y is the draw-time y plus the larger of the
\* engine's used height (one line-height when it reports zero) and the minimum
\* height, and cursor x is the left margin.
C14_MultiCellAdvance ==
    \A w \in Widths, h \in Heights, used_height \in UsedHeights :
        LET r == multi_cell(pdf, w, h, used_height)
        IN /\ r.s.y = r.rect[2]
                        + Larger(UsedOrLine(pdf, used_height), CellHeight(pdf, h))
           /\ r.s.x = pdf.left_margin

\* a multi_cell whose text took 20 mm has moved the cursor from the top margin
\* to 20 mm below it, at the left margin
C14_Witness ==
    /\ last.op = "multi_cell"
    /\ last.used = 20 * K
    /\ pdf.y = pdf.top_margin + 20 * K
    /\ pdf.x = pdf.left_margin

\* C15: multi_cell creates no page once the text is handed to the engine:
\* page_no() after the call is the page count at that moment, whatever height
\* the engine reports, and the text went to the last page.
C15_MultiCellNeverContinues ==
    \A w \in Widths, h \in Heights, used_height \in UsedHeights :
        LET r == multi_cell(pdf, w, h, used_height)
        IN /\ page_no(r.s) = r.pages
           /\ r.at = r.pages
           /\ r.s.page = r.at

\* a multi_cell whose text took 20 mm has left the cursor below the break
\* limit of the only page
C15_Witness ==
    /\ last.op = "multi_cell"
    /\ last.used = 20 * K
    /\ pdf.y > pdf.page_height - pdf.auto_page_break_margin
    /\ page_no(pdf) = 1

\* cursor x lies between the left margin and the right edge of the page body
WithinMargins(s, x) == s.left_margin <= x /\ x <= RightEdge(s)

\* the cursor x after each operation that resets x to the left margin, from
\* the canvas s
ResetXs(s) ==
    { ln(s, h).x : h \in Heights }
      \cup { add_page(s).x }
      \cup { multi_cell(s, w, h, 0).s.x : w \in Widths, h \in Heights }
      \cup { cell(s, a[1], a[2], a[3], a[4]).s.x :
                 a \in Widths \X Heights \X {"LMARGIN", "LEFT", "NEXT"} \X YDirectives }

\* C16: on every constructible canvas (every named format, every explicit
\* pair, either orientation), after ln, add_page, multi_cell and cell with a
\* margin-reset directive, left margin <= cursor x <= page width - right margin.
C16_ResetWithinMarginsOnEveryCanvas ==
    \A x \in ResetXs(pdf) : WithinMargins(pdf, x)

\* C16 (amended): the same on every canvas whose page width is at least the
\* left and right margins together (20 mm), which every named format is in
\* either orientation.
C16_ResetWithinMarginsOnWidePages ==
    /\ pdf.page_width >= pdf.left_margin + pdf.right_margin
          => \A x \in ResetXs(pdf) : WithinMargins(pdf, x)
    /\ pdf.page_width \in { TenthToNative(d) :
                               d \in {1480, 2100, 2159, 2794, 2970, 3556, 4200} }
          => \A x \in ResetXs(pdf) : WithinMargins(pdf, x)

\* on a page 297 mm wide (A4 landscape or A3 portrait), a cell with a
\* margin-reset directive has left the cursor on the left margin of the
\* second page
C16_Witness ==
    /\ last.op = "cell" /\ last.new_x \in {"LMARGIN", "LEFT", "NEXT"}
    /\ pdf.page_width = TenthToNative(2970)
    /\ pdf.x = pdf.left_margin
    /\ page_no(pdf) = 2

\* C17: ln(h) sets cursor x to the left margin and moves cursor y down by h
\* millimetres, or by one line-height when h is 0, and changes nothing else of
\* the canvas (no page is created, no break is checked).
C17_LnMovesOnlyTheCursor ==
    \A h \in Heights :
        ln(pdf, h) = [pdf EXCEPT !.x = pdf.left_margin,
                                 !.y = pdf.y + CellHeight(pdf, h)]

\* ln has moved the cursor of a canvas without a page below the break limit
C17_Witness ==
    /\ last.op = "ln"
    /\ page_no(pdf) = 0
    /\ pdf.x = pdf.left_margin
    /\ pdf.y > pdf.page_height - pdf.auto_page_break_margin

\* C18: add_page appends exactly one page, of the canvas's page width and
\* height, keeps the pages before it, makes the new page the current one and
\* puts the cursor at (left margin, top margin); nothing else changes.
C18_AddPageAppendsOnePage ==
    LET s == add_page(pdf)
        n == Len(pdf.doc)
    IN /\ Len(s.doc) = n + 1
       /\ SubSeq(s.doc, 1, n) = pdf.doc
       /\ s.doc[n + 1] = [width |-> pdf.page_width, height |-> pdf.page_height]
       /\ s.page = n + 1
       /\ s.x = pdf.left_margin /\ s.y = pdf.top_margin
       /\ s = [pdf EXCEPT !.doc = s.doc, !.page = s.page, !.x = s.x, !.y = s.y]

\* add_page has appended the second page, of the canvas's size, and the
\* cursor is at the margins
C18_Witness ==
    /\ last.op = "add_page"
    /\ Len(pdf.doc) = 2
    /\ pdf.doc[2] = [width |-> pdf.page_width, height |-> pdf.page_height]
    /\ pdf.page = 2
    /\ pdf.x = pdf.left_margin /\ pdf.y = pdf.top_margin

\* the pages a call created: one for add_page, one for the implicit first
\* page, one for the automatic break
Created(call) ==
    (IF call.op = "add_page" THEN 1 ELSE 0)
      + (IF call.ensured THEN 1 ELSE 0)
      + (IF call.broke THEN 1 ELSE 0)

\* C19: page_no() is 0 on a fresh canvas, and every call raises it by the
\* number of pages the call created (explicit add_page, implicit first page,
\* automatic break), so that it is the total of pages created and never
\* decreases; each add_page raises it by exactly one.
C19_PageNoCountsCreatedPages ==
    /\ page_no(pdf) = 0
    /\ [][/\ page_no(pdf') = page_no(pdf) + Created(last')
           /\ page_no(pdf') >= page_no(pdf)
           /\ last'.op = "add_page" => page_no(pdf') = page_no(pdf) + 1]_vars

\* a drawing call has made page_no() 2 by an automatic break
C19_Witness ==
    /\ last.op \in {"cell", "multi_cell"}
    /\ last.broke /\ ~last.ensured
    /\ page_no(pdf) = 2

\* C20: the canvas starts without a current page and with page_no() = 0; in
\* every state the current page is absent exactly when page_no() = 0 and is
\* the last page otherwise; once there is a current page there always is one.
C20_CurrentPageIsLastPage ==
    /\ pdf.page = 0 /\ page_no(pdf) = 0
    /\ [](/\ pdf.page = 0 <=> page_no(pdf) = 0
          /\ pdf.page # 0 => pdf.page = Len(pdf.doc))
    /\ [][pdf.page # 0 => pdf'.page # 0]_vars

\* the implicit first page of a drawing call is the current page
C20_Witness ==
    /\ last.op \in {"cell", "multi_cell", "image"}
    /\ last.ensured /\ ~last.broke
    /\ pdf.page = 1 /\ page_no(pdf) = 1

\* the page the engine was asked to draw on is a page of the document, and
\* the call created the first page exactly when the canvas had no page
DrawnOnPage(s, at, ensured) ==
    /\ at >= 1 /\ at <= page_no(s) + 2
    /\ ensured <=> s.page = 0

\* C21: cell, multi_cell and image hand their text or image to the engine
\* only with a current page, and the ensure-page guard creates a page exactly
\* when the canvas has none (none when a page is active).
C21_DrawsOnlyOnAPage ==
    /\ \A w \in Widths, h \in Heights, new_x \in XDirectives, new_y \in YDirectives :
          LET r == cell(pdf, w, h, new_x, new_y)
          IN DrawnOnPage(pdf, r.at, r.ensured) /\ r.at <= page_no(r.s)
    /\ \A w \in Widths, h \in Heights, used_height \in UsedHeights :
          LET r == multi_cell(pdf, w, h, used_height)
          IN DrawnOnPage(pdf, r.at, r.ensured) /\ r.at <= page_no(r.s)
    /\ \A name \in ImageFiles, x \in Coordinates, y \in Coordinates,
          w \in Widths, h \in Heights :
          LET r == image(pdf, name, x, y, w, h)
          IN /\ r.ensured <=> pdf.page = 0
             /\ name.ok => (r.at >= 1 /\ r.at <= page_no(r.s))
    /\ pdf.page # 0 => ensure_page(pdf) = pdf
    /\ pdf.page = 0 => page_no(ensure_page(pdf)) = page_no(pdf) + 1

\* an image has been placed on a canvas that had a page, and no page was
\* created for it
C21_Witness ==
    /\ last.op = "image" /\ last.err = ""
    /\ ~last.ensured
    /\ pdf.page >= 1 /\ page_no(pdf) = 1

\* C22: across every call (add_font that registers or fails, set_font that
\* returns or raises, drawing calls, the others) the set of registered font
\* keys never loses a key.
C22_RegistryNeverLosesAKey ==
    [][DOMAIN pdf.font_map \subseteq DOMAIN pdf'.font_map]_vars

\* an add_font call has failed on a canvas with two registered keys
C22_Witness ==
    /\ last.op = "add_font" /\ last.err # ""
    /\ Cardinality(DOMAIN pdf.font_map) >= 2

\* the styles that name a built-in face
BuiltinStyles == { <<>>, <<"B">>, <<"I">>, <<"B", "I">> }

\* the built-in face of a style: regular, bold, italic, bold-italic
BuiltinFace(style) ==
    CASE style = <<>> -> "helv"
      [] style = <<"B">> -> "helvb"
      [] style = <<"I">> -> "helvi"
      [] style = <<"B", "I">> -> "helvbi"

\* C23: when set_font is called for a (family, style) pair that is not
\* registered, with style regular, B, I or BI, the handle the next drawing
\* call uses is the built-in face of the style, whichever fonts add_font
\* registered before.
C23_FallbackIsBuiltinFace ==
    \A family \in {foo, helvetica}, style \in BuiltinStyles :
        FontKey(family, style) \notin DOMAIN pdf.font_map =>
            LET r == set_font(pdf, family, style, None)
            IN /\ r.err = ""
               /\ cell(r.s, 0, 0, "None", "None").handle = BuiltinFace(style)
               /\ multi_cell(r.s, 0, 0, 0).handle = BuiltinFace(style)

\* a second font file the engine accepts
OtherFontFile == [given |-> TRUE, exists |-> TRUE, handle |-> "F1"]

\* the font files the engine accepts
GoodFontFiles == { f \in FontFiles : f.given /\ f.exists /\ f.handle # "" }

\* spellings of one family and of one style that differ in letter case only
FamilySpellings == { <<Foo, foo>>, <<foo, Foo>>, <<helvetica, HELVETICA>> }
StyleSpellings == { <<<<"b">>, <<"B">>>>, <<<<"B">>, <<"b">>>>, <<<<>>, <<>>>>,
                    <<<<"u">>, <<"U">>>> }

\* C24: font keys are case-normalized: add_font followed by set_font with the
\* same family and style in another letter case selects the registered font,
\* not the fallback, and a second registration in another letter case
\* replaces the handle of the same registry entry; every key of the registry
\* is in upper case.
C24_FontKeysIgnoreCase ==
    /\ \A fam \in FamilySpellings, sty \in StyleSpellings, fname \in GoodFontFiles :
          LET a == add_font(pdf, fam[1], sty[1], fname)
              r == set_font(a.s, fam[2], sty[2], None)
              b == add_font(a.s, fam[2], sty[2], OtherFontFile)
          IN /\ a.err = "" /\ r.err = "" /\ b.err = ""
             /\ r.s.font_key \in DOMAIN a.s.font_map
             /\ r.s.font_map = a.s.font_map
             /\ r.s.font_map[r.s.font_key] = fname.handle
             /\ cell(r.s, 0, 0, "None", "None").handle = fname.handle
             /\ DOMAIN b.s.font_map = DOMAIN a.s.font_map
             /\ b.s.font_map[r.s.font_key] = OtherFontFile.handle
    /\ \A k \in DOMAIN pdf.font_map : k.family = Upper(k.family) /\ k.style = Upper(k.style)

\* set_font('foo', 'B') has selected the font that add_font registered as
\* ('Foo', 'b')
C24_Witness ==
    /\ last.op = "set_font" /\ last.err = ""
    /\ pdf.font_key = [family |-> <<"F", "O", "O">>, style |-> <<"B">>]
    /\ pdf.font_key \in DOMAIN pdf.font_map
    /\ pdf.font_map[pdf.font_key] = "F0"

\* image files the engine loads: the one of the exploration and one of
\* 30 x 20 pixels
Pixmaps ==
    { f \in ImageFiles : f.ok } \cup { [ok |-> TRUE, width |-> 30, height |-> 20] }

\* the x and y arguments of image: omitted, 0 and 30 mm
ImageCoordinates == { None, Some(0), Some(30) }

\* the rectangle has the width and height the call resolved
RectOfSize(r) ==
    /\ r.rect[3] - r.rect[1] = r.width
    /\ r.rect[4] - r.rect[2] = r.height

\* C25: image given only a width w places the height w * intrinsic height /
\* intrinsic width, and given only a height h places the width h * intrinsic
\* width / intrinsic height, w and h converted from millimetres.
C25_ImageKeepsAspectRatio ==
    \A name \in Pixmaps, x \in ImageCoordinates, y \in ImageCoordinates :
        /\ \A w \in Widths \ {0} :
              LET r == image(pdf, name, x, y, w, 0)
              IN /\ r.err = ""
                 /\ r.width = w * K
                 /\ r.height = (w * K * name.height) \div name.width
                 /\ RectOfSize(r)
        /\ \A h \in Heights \ {0} :
              LET r == image(pdf, name, x, y, 0, h)
              IN /\ r.err = ""
                 /\ r.height = h * K
                 /\ r.width = (h * K * name.width) \div name.height
                 /\ RectOfSize(r)

\* an image has been placed on the second page, the cursor away from the top
\* margin
C25_Witness ==
    /\ last.op = "image" /\ last.err = ""
    /\ page_no(pdf) = 2
    /\ pdf.y > pdf.top_margin

\* C26: image given neither width nor height places the intrinsic pixel
\* width and height as points, without millimetre conversion; given both, it
\* places exactly the two sizes converted from millimetres, whatever the
\* intrinsic ratio.
C26_ImageIntrinsicOrGivenSize ==
    \A name \in Pixmaps, x \in ImageCoordinates, y \in ImageCoordinates :
        /\ LET r == image(pdf, name, x, y, 0, 0)
           IN /\ r.err = ""
              /\ r.width = name.width * PT
              /\ r.height = name.height * PT
              /\ RectOfSize(r)
        /\ \A w \in Widths \ {0}, h \in Heights \ {0} :
              LET r == image(pdf, name, x, y, w, h)
              IN /\ r.err = ""
                 /\ r.width = w * K
                 /\ r.height = h * K
                 /\ RectOfSize(r)

\* an image has been placed by a call that also created the first page
C26_Witness ==
    /\ last.op = "image" /\ last.err = ""
    /\ last.ensured
    /\ page_no(pdf) = 1

\* C27: the origin of the rectangle of image is resolved for each axis alone:
\* an x (or y) given in millimetres, 0 included, is converted and used; an
\* omitted x (or y) is the cursor x (or y) at the placement.
C27_ImageOriginPerAxis ==
    \A name \in Pixmaps, x \in ImageCoordinates, y \in ImageCoordinates,
       w \in Widths, h \in Heights :
        LET r == image(pdf, name, x, y, w, h)
        IN /\ x # None => r.rect[1] = x[1] * K
           /\ y # None => r.rect[2] = y[1] * K
           /\ x = None => r.rect[1] = r.s.x
           /\ y = None => r.rect[2] = r.s.y
           /\ (x = None /\ pdf.page # 0) => r.rect[1] = pdf.x
           /\ (y = None /\ pdf.page # 0) => r.rect[2] = pdf.y

\* an image has been placed with the cursor away from both margins
C27_Witness ==
    /\ last.op = "image" /\ last.err = ""
    /\ pdf.x # pdf.left_margin
    /\ pdf.y # pdf.top_margin

FormatNames ==
    { <<"A", "3">>, <<"A", "4">>, <<"A", "5">>,
      <<"L", "E", "T", "T", "E", "R">>, <<"L", "E", "G", "A", "L">> }

\* two strings that differ in letter case at most
SameLetters(a, b) ==
    /\ Len(a) = Len(b)
    /\ \A i \in 1..Len(a) : UpperChar(a[i]) = UpperChar(b[i])

\* the arguments with which construction is to succeed
Accepted(unit, format) ==
    /\ unit = "mm"
    /\ \/ format.isstr /\ \E n \in FormatNames : SameLetters(format.name, n)
       \/ ~format.isstr /\ Len(format.dims) = 2

\* C29: construction succeeds exactly when the unit is "mm" and the format is
\* one of A3, A4, A5, LETTER, LEGAL in any letter case or a (width, height)
\* pair; with any other unit or format it raises and there is no canvas.
C29_ConstructionSucceedsExactlyWhen ==
    last.op = "init" =>
        LET unit == last.args[2]
            format == last.args[3]
        IN /\ last.err = "" <=> Accepted(unit, format)
           /\ last.err # "" => (last.err = "ValueError" /\ pdf = NoCanvas)
           /\ last.err = "" =>
                 /\ pdf # NoCanvas
                 /\ pdf.page = 0 /\ pdf.doc = <<>>
                 /\ pdf.page_width > 0 /\ pdf.page_height > 0

\* FPDF('l', 'mm', 'legal') has returned a canvas 355.6 mm wide
C29_Witness ==
    /\ last.op = "init" /\ last.err = ""
    /\ last.args = << <<"l">>, "mm", StrFormat(<<"l", "e", "g", "a", "l">>) >>
    /\ pdf.page_width = TenthToNative(3556)
    /\ pdf.page_height = TenthToNative(2159)

\* the floats 2^52 * 2^e and (2^53 - 1) * 2^e have the least and the greatest
\* mantissa
LeastMantissa == <<0, 1024, 0, 0, 0>>
GreatestMantissa == <<0, 2047, Base - 1, Base - 1, Base - 1>>

\* y is the float next after x away from zero
NextFloat(x, y) ==
    /\ x.neg = y.neg
    /\ x.man # NatZero
    /\ \/ y.exp = x.exp /\ x.man # GreatestMantissa /\ y.man = Successor(x.man)
       \/ y.exp = x.exp + 1 /\ x.man = GreatestMantissa /\ y.man = LeastMantissa

\* x and y are the same float or neighbours
WithinOneUlp(x, y) == x = y \/ NextFloat(x, y) \/ NextFloat(y, x)

\* every nonzero width and height and every given coordinate is multiplied by
\* the factor set_y multiplies by
SameFactor(s) ==
    \A v \in Millimetres :
        /\ v # 0 => resolve_width(s, v) = v * K /\ resolve_height(s, v) = v * K
        /\ resolve_coordinate(s, Some(v), "x") = v * K
        /\ resolve_coordinate(s, Some(v), "y") = v * K

\* C30 as stated: get_y() right after set_y(m) returns m itself, the float
\* (m * k) / k being equal to float(m), and widths, heights and coordinates
\* are converted with the same factor.
C30_RoundTripExact ==
    last.op = "set_y" =>
        LET m == last.args[1]
        IN /\ pdf.y = m * K
           /\ get_y_float(set_y_float(m)) = Float(m)
           /\ SameFactor(pdf)

\* C30: set_y(m) stores m times the millimetre factor, the factor of widths,
\* heights and coordinates, and get_y() right after it returns float(m) or
\* one of the two floats next to it.
C30_RoundTripWithinOneUlp ==
    last.op = "set_y" =>
        LET m == last.args[1]
        IN /\ pdf.y = m * K
           /\ WithinOneUlp(get_y_float(set_y_float(m)), Float(m))
           /\ SameFactor(pdf)

\* set_y(25) has run, and get_y() returns the float just below 25
C30_Witness ==
    /\ last.op = "set_y" /\ last.args = <<25>>
    /\ pdf.y = 25 * K
    /\ NextFloat(get_y_float(set_y_float(25)), Float(25))

\* the font sizes of the steps of the callers
NewSizes == { 10, 24 }

\* the calls that are to leave the font size alone do
KeepsFontSize(s) ==
    /\ \A family \in {foo, helvetica}, style \in Styles :
          /\ set_font(s, family, style, None).s.font_size = s.font_size
          /\ \A fname \in FontFiles :
                add_font(s, family, style, fname).s.font_size = s.font_size
    /\ add_page(s).font_size = s.font_size
    /\ ln(s, 0).font_size = s.font_size
    /\ cell(s, 0, 0, "None", "NEXT").s.font_size = s.font_size
    /\ multi_cell(s, 0, 0, 0).s.font_size = s.font_size
    /\ \A name \in ImageFiles :
          image(s, name, None, None, 0, 0).s.font_size = s.font_size

\* the line height of cell, multi_cell and ln on s is that of the size
UsesFontSize(s, size) ==
    /\ s.font_size = size
    /\ cell(s, 0, 0, "None", "NEXT").height = (size * 12 * PT) \div 10
    /\ multi_cell(s, 0, 0, 0).height = (size * 12 * PT) \div 10
    /\ ln(s, 0).y = s.y + (size * 12 * PT) \div 10

\* C31: the font size changes only by set_font with a size and by
\* set_font_size; a size given to set_font is the size of the line height of
\* every later cell, multi_cell and ln until it is changed; set_font without
\* a size, add_font, add_page and the drawing calls leave it unchanged.
C31_FontSizeFollowsSetFont ==
    /\ KeepsFontSize(pdf)
    /\ \A family \in {foo, helvetica}, style \in Styles, size \in NewSizes :
          LET s1 == set_font(pdf, family, style, Some(size)).s
          IN /\ UsesFontSize(s1, size)
             /\ KeepsFontSize(s1)
             /\ UsesFontSize(cell(s1, 0, 0, "None", "NEXT").s, size)
    /\ \A size \in NewSizes : UsesFontSize(set_font_size(pdf, size), size)

\* what holds of the set_font calls that return: the same, for them alone
FontSizeFollowsReturnedSetFont ==
    /\ KeepsFontSize(pdf)
    /\ \A family \in {foo, helvetica}, style \in Styles, size \in NewSizes :
          LET r == set_font(pdf, family, style, Some(size))
          IN r.err = "" =>
                /\ UsesFontSize(r.s, size)
                /\ KeepsFontSize(r.s)
                /\ UsesFontSize(cell(r.s, 0, 0, "None", "NEXT").s, size)
    /\ \A size \in NewSizes : UsesFontSize(set_font_size(pdf, size), size)

\* the pages a placement adds after _ensure_page has run: one if the flag is
\* set and the cursor plus the height passes the trigger line, else none
PagesByBreak(s, height) ==
    LET s1 == ensure_page(s)
    IN IF /\ s1.auto_page_break
          /\ s1.y + height > s1.page_height - s1.auto_page_break_margin
       THEN 1 ELSE 0

\* C32: set_auto_page_break(auto, margin) sets the flag to auto and the
\* trigger margin to margin millimetres in native units and nothing else;
\* cell and multi_cell add a page by the break check exactly when the flag is
\* set and cursor y + required height > page height - trigger margin; with
\* the flag cleared they never change page_no() on an existing page.
C32_BreakExactlyWhenEnabledAndPastTrigger ==
    /\ \A auto \in BOOLEAN, margin \in BreakMargins :
          LET s1 == set_auto_page_break(pdf, auto, margin)
          IN /\ s1.auto_page_break = auto
             /\ s1.auto_page_break_margin = margin * K
             /\ [s1 EXCEPT !.auto_page_break = pdf.auto_page_break,
                           !.auto_page_break_margin = pdf.auto_page_break_margin] = pdf
    /\ \A w \in Widths, h \in Heights :
          LET c == cell(pdf, w, h, "None", "NEXT")
              m == multi_cell(pdf, w, h, 0)
              height == CellHeight(pdf, h)
          IN /\ page_no(c.s) = page_no(ensure_page(pdf)) + PagesByBreak(pdf, height)
             /\ page_no(m.s) = page_no(ensure_page(pdf)) + PagesByBreak(pdf, height)
             /\ (~pdf.auto_page_break /\ pdf.page # 0) =>
                    /\ page_no(c.s) = page_no(pdf)
                    /\ page_no(m.s) = page_no(pdf)

\* auto-break was switched off, and a cell was drawn below the trigger line
\* of the only page without a page being added
C32_Witness ==
    /\ last.op = "cell" /\ ~last.broke /\ ~last.ensured
    /\ ~pdf.auto_page_break
    /\ page_no(pdf) = 1
    /\ pdf.y > pdf.page_height - pdf.auto_page_break_margin
    /\ last.new_y = "NEXT"

\* the calls that change the canvas or write it out without drawing
StateMutations ==
    { "ln", "set_y", "set_font", "set_font_size", "add_font",
      "set_auto_page_break", "output" }

\* the cursor is below the trigger line of the page
PastTrigger(s) == s.y > s.page_height - s.auto_page_break_margin

\* the step was a cell or multi_cell that drew on a page it created
DrewOnNewPage ==
    /\ page_no(pdf') = page_no(pdf) + 1
    /\ pdf'.page = page_no(pdf')
    /\ last'.ensured \/ last'.broke

\* C33 as stated: ln, set_y, set_font, set_font_size, add_font,
\* set_auto_page_break and output never change the pages or the current page,
\* also when they leave the cursor below the trigger line; the next cell or
\* multi_cell from such a cursor draws on a new page.
C33_PlacementResolvesEveryCursorPastTrigger ==
    [][ /\ last'.op \in StateMutations =>
              (pdf'.doc = pdf.doc /\ pdf'.page = pdf.page)
        /\ (last'.op \in {"cell", "multi_cell"} /\ PastTrigger(pdf)) =>
              DrewOnNewPage ]_vars

\* C33: ln, set_y, set_font, set_font_size, add_font, set_auto_page_break
\* and output never change the pages or the current page, also when they
\* leave the cursor below the trigger line; with auto-break on, the next cell
\* or multi_cell from such a cursor draws on a new page; with auto-break off
\* and a page present it draws on the current page.
C33_PlacementResolvesPendingBreak ==
    [][ /\ last'.op \in StateMutations =>
              (pdf'.doc = pdf.doc /\ pdf'.page = pdf.page)
        /\ (last'.op \in {"cell", "multi_cell"} /\ PastTrigger(pdf)) =>
              IF pdf.auto_page_break \/ pdf.page = 0
              THEN DrewOnNewPage
              ELSE pdf'.doc = pdf.doc /\ pdf'.page = pdf.page ]_vars

\* ln has left the cursor below the trigger line of the current page, with
\* auto-break on, and the page count is still one
C33_Witness ==
    /\ last.op = "ln"
    /\ pdf.auto_page_break /\ PastTrigger(pdf)
    /\ pdf.page = 1 /\ page_no(pdf) = 1

\* C34: with auto-page-break on and trigger margin t, a cell whose resolved
\* height h is at most page height - t - top margin is drawn in a rectangle
\* of that height whose bottom edge y + h is at most page height - t,
\* whatever add_page, set_y, ln, cell and multi_cell calls came before.
C34_FittingCellEndsAboveTrigger ==
    \A w \in Widths, h \in Heights, new_x \in XDirectives, new_y \in YDirectives :
        LET r == cell(pdf, w, h, new_x, new_y)
            t == pdf.auto_page_break_margin
        IN (pdf.auto_page_break /\ CellHeight(pdf, h) <= pdf.page_height - t - pdf.top_margin) =>
              /\ r.rect[4] - r.rect[2] = CellHeight(pdf, h)
              /\ r.rect[4] <= pdf.page_height - t

\* a 10 mm cell that did not fit above the trigger line has been drawn at the
\* top of the second page, and the cursor is below it
C34_Witness ==
    /\ last.op = "cell" /\ last.broke /\ last.new_y = "NEXT"
    /\ pdf.auto_page_break
    /\ page_no(pdf) = 2
    /\ pdf.y = pdf.top_margin + 10 * K

\* C35: the width resolved for a cell or multi_cell of width 0 is never
\* negative: after any cells of explicit width with the default advance, the
\* cursor x is at most page width - right margin at the next call of width 0.
C35_ZeroWidthNeverNegative ==
    /\ pdf.x <= RightEdge(pdf)
    /\ \A h \in Heights :
          /\ cell(pdf, 0, h, "None", "None").width >= 0
          /\ multi_cell(pdf, 0, h, 0).width >= 0

\* C36: the rectangle multi_cell hands to the engine is well-formed: for
\* every auto-break setting, the cursor y at draw time is at most page height
\* - bottom margin, and the rectangle from the cursor down to the bottom
\* margin has a height that is not negative.
C36_MultiCellRectangleWellFormed ==
    \A w \in Widths, h \in Heights, used_height \in UsedHeights :
        LET r == multi_cell(pdf, w, h, used_height)
        IN /\ r.rect[2] <= pdf.page_height - pdf.bottom_margin
           /\ r.rect[4] - r.rect[2] >= 0

\* C37: a set_font call that raises leaves the canvas unchanged: the active
\* font key, the font registry and the font size are after the call what
\* they were before it.
C37_FailedSetFontChangesNothing ==
    [][ (last'.op = "set_font" /\ last'.err # "") =>
            /\ pdf'.font_key = pdf.font_key
            /\ pdf'.font_map = pdf.font_map
            /\ pdf'.font_size = pdf.font_size ]_vars

\* C38: the page number add_subtitle records in index_data for a subtitle is
\* the page its cell is drawn on, wherever the cursor was at the call (also
\* when the y > 260 check or the cell's page break creates a page).
C38_IndexPageIsPageDrawnOn ==
    last.op = "add_subtitle" =>
        LET entry == pdf.index_data[Len(pdf.index_data)]
        IN entry.page = last.args[1]

====
